---- MODULE Spec2Model ----
(***************************************************************************)
(* GravelRiverTransporter (landlab): bed-load transport over a drainage    *)
(* network, advanced by an explicit forward step or by a sparse matrix     *)
(* solve.  The model follows                                               *)
(* landlab/components/gravel_river_transporter/gravel_river_transporter.py *)
(*                                                                         *)
(* Numbers.  Field values are exact: fluxes, rates and matrix entries are  *)
(* integers (the inputs below are chosen so that every division the code   *)
(* performs on them is exact), elevations and the right-hand side are      *)
(* rationals <<numerator, denominator>>, because the matrix solve leaves   *)
(* the integers.  <<0, 0>> is NaN, which the solver returns for a singular *)
(* matrix.                                                                 *)
(***************************************************************************)
EXTENDS Integers, Sequences, FiniteSets, TLC

VARIABLES
    pc,                 \* "new" | "failed" | "routed" | "stepped"
    status_at_node,     \* grid.status_at_node
    fields,             \* names of the fields the grid holds at its nodes
    solver,             \* the solver string given to __init__
    abrasion_coef,      \* self._abrasion_coef
    porosity_factor,    \* self._porosity_factor
    elev,               \* topographic__elevation
    discharge,          \* surface_water__discharge
    slope,              \* topographic__steepest_slope
    receiver_node,      \* flow__receiver_node
    sediment_influx,    \* bedload_sediment__volume_influx
    sediment_outflux,   \* bedload_sediment__volume_outflux
    dzdt,               \* sediment__rate_of_change
    abrasion,           \* bedload_sediment__rate_of_loss_to_abrasion
    mat,                \* self._mat (matrix mode)
    rhs,                \* self._rhs (matrix mode)
    dt,                 \* the argument of the latest run_one_step call
    steps               \* number of run_one_step calls made

vars == <<pc, status_at_node, fields, solver, abrasion_coef, porosity_factor,
          elev, discharge, slope, receiver_node, sediment_influx,
          sediment_outflux, dzdt, abrasion, mat, rhs, dt, steps>>

routing == <<discharge, slope, receiver_node>>
outputs == <<sediment_influx, sediment_outflux, dzdt, abrasion>>
params  == <<solver, abrasion_coef, porosity_factor>>

-----------------------------------------------------------------------------
(* Bounds and inputs *)

\* run_one_step is called at most MaxSteps times.
MaxSteps == 2

\* Values the flow router may write to its fields at a core node.
SlopeValues == {0, 64}
DischargeValues == {1, 2}

\* Arguments of the constructor and of run_one_step.
SolverValues == {"explicit", "matrix", "euler"}
AbrasionValues == {0, 2}
SedimentPorosity == <<1, 2>>          \* sediment_porosity = 1/2
DtValues == {2}

transport_coefficient == 1
intermittency_factor == 1

\* Node spacing of the raster grid (grid.dx); cells are dx by dx.
dx == 1

-----------------------------------------------------------------------------
(* Exact arithmetic on rationals <<n, d>>, d > 0; <<0, 0>> is NaN. *)

RECURSIVE GCD(_, _)
GCD(a, b) == IF b = 0 THEN a ELSE GCD(b, a % b)

Abs(x) == IF x < 0 THEN -x ELSE x

NaN == <<0, 0>>
IsNaN(x) == x[2] = 0

Norm(n, d) ==
    IF d = 0 THEN NaN
    ELSE LET g == GCD(Abs(n), Abs(d))
             s == IF d < 0 THEN -1 ELSE 1
         IN  <<(s * n) \div g, (s * d) \div g>>

R(n) == <<n, 1>>

RAdd(x, y) ==
    IF IsNaN(x) \/ IsNaN(y) THEN NaN
    ELSE LET l == (x[2] * y[2]) \div GCD(x[2], y[2])
         IN  Norm(x[1] * (l \div x[2]) + y[1] * (l \div y[2]), l)

RScale(k, x) ==
    IF IsNaN(x) THEN NaN
    ELSE LET g == GCD(Abs(k), x[2])
         IN  Norm((k \div g) * x[1], x[2] \div g)

RSub(x, y) == RAdd(x, RScale(-1, y))

RDivInt(x, k) == IF IsNaN(x) \/ k = 0 THEN NaN ELSE Norm(x[1], x[2] * k)

-----------------------------------------------------------------------------
(* The grid *)

Nodes == DOMAIN status_at_node

core_nodes == {n \in Nodes : status_at_node[n] = "CORE"}

RECURSIVE SortedSeq(_)
SortedSeq(S) ==
    IF S = {} THEN <<>>
    ELSE LET m == CHOOSE x \in S : \A y \in S : x <= y
         IN  <<m>> \o SortedSeq(S \ {m})

\* grid.core_nodes, in ascending order of node id
CoreSeq == SortedSeq(core_nodes)

\* grid.area_of_cell[grid.cell_at_node[n]] on a raster grid
area_of_cell == dx * dx

\* get_core_node_at_node(grid): position of a core node among the core nodes
mat_id == [n \in Nodes |->
             IF n \in core_nodes
             THEN Cardinality({c \in core_nodes : c < n})
             ELSE -1]

\* Two core nodes between a fixed-value outlet and a closed node.
GridTwoCores == [n \in 0 .. 3 |->
                   IF n = 0 THEN "FIXED_VALUE"
                   ELSE IF n = 3 THEN "CLOSED" ELSE "CORE"]

\* Three core nodes between a fixed-value outlet and a closed node.
GridThreeCores == [n \in 0 .. 4 |->
                     IF n = 0 THEN "FIXED_VALUE"
                     ELSE IF n = 4 THEN "CLOSED" ELSE "CORE"]

InputFields == {"topographic__elevation", "surface_water__discharge",
                "topographic__steepest_slope", "flow__receiver_node",
                "flow__link_to_receiver_node", "flow__upstream_node_order"}

OutputFields == {"bedload_sediment__rate_of_loss_to_abrasion",
                 "bedload_sediment__volume_influx",
                 "bedload_sediment__volume_outflux",
                 "sediment__rate_of_change"}

\* Component.initialize_output_fields: a missing output field is created,
\* filled with zeros.
initialize_output_fields(grid) == [n \in DOMAIN grid |-> 0]

-----------------------------------------------------------------------------
(* What the flow router supplies: a receiver, a slope and a discharge per  *)
(* node.  A boundary node is its own receiver; a core node drains to a     *)
(* core or fixed-value node, or to itself (a pit, with slope 0); following *)
(* receivers from any node ends at a boundary node or a pit.               *)

RECURSIVE Downstream(_, _, _)
Downstream(rcv, n, k) == IF k = 0 THEN n ELSE Downstream(rcv, rcv[n], k - 1)

Acyclic(grid, rcv) ==
    \A n \in DOMAIN grid :
        LET e == Downstream(rcv, n, Cardinality(DOMAIN grid))
        IN  rcv[e] = e

CoreOf(grid) == {n \in DOMAIN grid : grid[n] = "CORE"}

\* <<receiver, slope, discharge>> of every core node
CoreRoutes(grid, slopes) ==
    {f \in [CoreOf(grid) -> (DOMAIN grid) \X slopes \X DischargeValues] :
        \A n \in CoreOf(grid) :
            /\ grid[f[n][1]] # "CLOSED"
            /\ (f[n][1] = n => f[n][2] = 0)}

Routings(grid, slopes) ==
    {g \in {[n \in DOMAIN grid |-> IF grid[n] = "CORE" THEN f[n] ELSE <<n, 0, 0>>] :
               f \in CoreRoutes(grid, slopes)} :
        Acyclic(grid, [n \in DOMAIN grid |-> g[n][1]])}

\* The elevation field the grid starts with.
InitialElevation(grid) == [n \in DOMAIN grid |-> R(n + 1)]

-----------------------------------------------------------------------------
(* Flux engine *)

\* slope ** (1/6), for a slope that is a sixth power
SixthRoot(s) == CHOOSE r \in 0 .. s : r ^ 6 = s

\* slope ** self._SEVEN_SIXTHS
SevenSixths(s) == s * SixthRoot(s)

\* Writes bedload_sediment__volume_outflux at every node.
calc_transport_capacity(q, s) ==
    [n \in DOMAIN q |->
        transport_coefficient * intermittency_factor * q[n] * SevenSixths(s[n])]

\* Writes the abrasion rate at the core nodes, from the fluxes as they are
\* stored when it is called.
calc_abrasion_rate(abr, out, infl) ==
    [n \in DOMAIN abr |->
        IF n \in core_nodes
        THEN (abrasion_coef * (out[n] + infl[n])) \div (2 * dx)
        ELSE abr[n]]

\* self._sediment_influx[self._receiver_node[cores]] = self._sediment_outflux[cores]
\* An indexed assignment: where a receiver is repeated, the last core node's
\* value is what remains; a node that is no core node's receiver is not written.
RECURSIVE AssignInflux(_, _, _, _)
AssignInflux(infl, out, rcvr, cores) ==
    IF cores = <<>> THEN infl
    ELSE AssignInflux([infl EXCEPT ![rcvr[Head(cores)]] = out[Head(cores)]],
                      out, rcvr, Tail(cores))

\* RateOfChange, written at every node instead of the core nodes only.
RateOfChangeAllNodes(old, infl, out, abr) ==
    [n \in DOMAIN old |->
        porosity_factor * (((infl[n] - out[n]) \div area_of_cell) - abr[n])]

\* RateOfChange, with the porosity factor on the flux divergence only.
RateOfChangeUnscaled(old, infl, out, abr) ==
    [n \in DOMAIN old |->
        IF n \in core_nodes
        THEN porosity_factor * ((infl[n] - out[n]) \div area_of_cell) - abr[n]
        ELSE old[n]]

\* self._dzdt[cores] = self._porosity_factor * ((influx - outflux) / area - abrasion)
RateOfChange(old, infl, out, abr) ==
    [n \in DOMAIN old |->
        IF n \in core_nodes
        THEN porosity_factor * (((infl[n] - out[n]) \div area_of_cell) - abr[n])
        ELSE old[n]]

\* The fields as calc_sediment_rate_of_change leaves them.
calc_sediment_rate_of_change ==
    LET out  == calc_transport_capacity(discharge, slope)
        abr  == IF abrasion_coef > 0
                THEN calc_abrasion_rate(abrasion, out, sediment_influx)
                ELSE abrasion
        infl == AssignInflux(sediment_influx, out, receiver_node, CoreSeq)
    IN  [outflux |-> out, abrasion |-> abr, influx |-> infl,
         dzdt |-> RateOfChange(dzdt, infl, out, abr)]

\* self._elev += self._dzdt * dt, at every node
AdvanceElevation(z, rate, d) == [n \in DOMAIN z |-> RAdd(z[n], R(rate[n] * d))]

-----------------------------------------------------------------------------
(* Matrix assembly and solve *)

\* One pass of the loop of zero_out_matrix, for core node i.
ZeroOutNode(m, rcvr, i) ==
    LET j  == mat_id[i]
        r  == rcvr[i]
        m1 == [m EXCEPT ![j][j] = 0]
    IN  IF status_at_node[r] = "CORE"
        THEN LET k  == mat_id[r]
                 m2 == [m1 EXCEPT ![j][k] = 0]
                 m3 == [m2 EXCEPT ![k][k] = 0]
             IN  [m3 EXCEPT ![k][j] = 0]
        ELSE m1

RECURSIVE ZeroOutLoop(_, _, _)
ZeroOutLoop(m, rcvr, cores) ==
    IF cores = <<>> THEN m
    ELSE ZeroOutLoop(ZeroOutNode(m, rcvr, Head(cores)), rcvr, Tail(cores))

zero_out_matrix(m, rcvr) == ZeroOutLoop(m, rcvr, CoreSeq)

\* prefac, a and b of _fill_matrix_and_rhs, for time step d
Prefac(d) == (transport_coefficient * intermittency_factor * d) \div (dx * dx)
CoefA(d) == Prefac(d) * ((1 \div dx) + (abrasion_coef \div 2))
CoefB(d) == Prefac(d) * ((1 \div dx) - (abrasion_coef \div 2))

\* Conductance, without the slope.
ConductanceNoSlope(i) == discharge[i]

\* f[i], where f = self._discharge * self._slope ** _ONE_SIXTH
Conductance(i) == discharge[i] * SixthRoot(slope[i])

\* FillNode, assigning the receiver's diagonal instead of adding to it.
FillNodeOverwrite(s, d, i) ==
    LET j  == mat_id[i]
        r  == receiver_node[i]
        af == CoefA(d) * (discharge[i] * SixthRoot(slope[i]))
        bf == CoefB(d) * (discharge[i] * SixthRoot(slope[i]))
        b1 == [s.rhs EXCEPT ![j] = elev[i]]
        m1 == [s.mat EXCEPT ![j][j] = @ + 1 + af]
    IN  IF status_at_node[r] = "CORE"
        THEN LET k  == mat_id[r]
                 m2 == [m1 EXCEPT ![j][k] = @ - af]
                 m3 == [m2 EXCEPT ![k][k] = bf]
             IN  [mat |-> [m3 EXCEPT ![k][j] = @ - bf], rhs |-> b1]
        ELSE [mat |-> m1, rhs |-> [b1 EXCEPT ![j] = RAdd(@, RScale(af, elev[r]))]]

\* One pass of the filling loop of _fill_matrix_and_rhs, for core node i.
\* s is the pair [mat, rhs].
FillNode(s, d, i) ==
    LET j  == mat_id[i]
        r  == receiver_node[i]
        af == CoefA(d) * Conductance(i)
        bf == CoefB(d) * Conductance(i)
        b1 == [s.rhs EXCEPT ![j] = elev[i]]
        m1 == [s.mat EXCEPT ![j][j] = @ + 1 + af]
    IN  IF status_at_node[r] = "CORE"
        THEN LET k  == mat_id[r]
                 m2 == [m1 EXCEPT ![j][k] = @ - af]
                 m3 == [m2 EXCEPT ![k][k] = @ + bf]
             IN  [mat |-> [m3 EXCEPT ![k][j] = @ - bf], rhs |-> b1]
        ELSE [mat |-> m1, rhs |-> [b1 EXCEPT ![j] = RAdd(@, RScale(af, elev[r]))]]

RECURSIVE FillLoop(_, _, _)
FillLoop(s, d, cores) ==
    IF cores = <<>> THEN s
    ELSE FillLoop(FillNode(s, d, Head(cores)), d, Tail(cores))

\* _fill_matrix_and_rhs(dt), starting from matrix m and right-hand side b
fill_matrix_and_rhs(m, b, d) ==
    FillLoop([mat |-> zero_out_matrix(m, receiver_node), rhs |-> b], d, CoreSeq)

\* Determinant of the rows and columns of m listed in rows and cols.
Without(q, k) == [x \in 1 .. (Len(q) - 1) |-> IF x < k THEN q[x] ELSE q[x + 1]]

RECURSIVE Det(_, _, _)
RECURSIVE DetSum(_, _, _, _)
Det(m, rows, cols) ==
    IF rows = <<>> THEN 1 ELSE DetSum(m, rows, cols, Len(cols))
DetSum(m, rows, cols, k) ==
    IF k = 0 THEN 0
    ELSE DetSum(m, rows, cols, k - 1)
         + (IF k % 2 = 1 THEN 1 ELSE -1) * m[rows[1]][cols[k]]
           * Det(m, Tail(rows), Without(cols, k))

IdxSeq(n) == [x \in 1 .. n |-> x - 1]

\* Numerator of Cramer's rule for unknown number c: the determinant of m
\* with column c replaced by b, expanded along that column.
RECURSIVE CramerSum(_, _, _, _)
CramerSum(m, b, c, i) ==
    IF i = 0 THEN R(0)
    ELSE LET n == Len(IdxSeq(Cardinality(DOMAIN m)))
             cof == (IF (i + c + 1) % 2 = 0 THEN 1 ELSE -1)
                    * Det(m, Without(IdxSeq(n), i), Without(IdxSeq(n), c + 1))
         IN  IF IsNaN(b[i - 1]) THEN NaN
             ELSE RAdd(CramerSum(m, b, c, i - 1), RScale(cof, b[i - 1]))

\* scipy.sparse.linalg.spsolve(mat, rhs): the solution of mat x = rhs; an
\* exactly singular matrix gives a vector of NaN.
spsolve(m, b) ==
    LET n == Cardinality(DOMAIN m)
        det == Det(m, IdxSeq(n), IdxSeq(n))
    IN  [c \in DOMAIN m |->
            IF det = 0 THEN NaN ELSE RDivInt(CramerSum(m, b, c, n), det)]

\* self._elev[self.grid.core_nodes] = spsolve(self._mat, self._rhs)
AssignCoreElevation(z, x) ==
    [n \in DOMAIN z |-> IF n \in core_nodes THEN x[mat_id[n]] ELSE z[n]]

-----------------------------------------------------------------------------
(* Actions *)

\* 1 / (1 - sediment_porosity)
PorosityFactor(p) == p[2] \div (p[2] - p[1])

make_empty_matrix_and_rhs(grid) ==
    LET idx == 0 .. (Cardinality(CoreOf(grid)) - 1)
    IN  [mat |-> [j \in idx |-> [k \in idx |-> 0]], rhs |-> [j \in idx |-> R(0)]]

\* GravelRiverTransporter(grid, abrasion_coefficient = ab, solver = s)
Construct(s, ab) ==
    /\ pc = "new"
    /\ solver' = s
    /\ abrasion_coef' = ab
    /\ porosity_factor' = PorosityFactor(SedimentPorosity)
    /\ fields' = fields \cup OutputFields
    /\ sediment_influx' = initialize_output_fields(status_at_node)
    /\ sediment_outflux' = initialize_output_fields(status_at_node)
    /\ dzdt' = initialize_output_fields(status_at_node)
    /\ abrasion' = initialize_output_fields(status_at_node)
    /\ IF s = "explicit"
       THEN pc' = "routed" /\ UNCHANGED <<mat, rhs>>
       ELSE IF s = "matrix"
       THEN /\ pc' = "routed"
            /\ mat' = make_empty_matrix_and_rhs(status_at_node).mat
            /\ rhs' = make_empty_matrix_and_rhs(status_at_node).rhs
       ELSE pc' = "failed" /\ UNCHANGED <<mat, rhs>>
    /\ UNCHANGED <<status_at_node, elev, routing, dt, steps>>

\* The flow router runs between two steps and rewrites its fields.
RerouteWith(slopes) ==
    /\ pc = "stepped"
    /\ steps < MaxSteps
    /\ \E g \in Routings(status_at_node, slopes) :
          /\ receiver_node' = [n \in Nodes |-> g[n][1]]
          /\ slope' = [n \in Nodes |-> g[n][2]]
          /\ discharge' = [n \in Nodes |-> g[n][3]]
    /\ routing' # routing
    /\ pc' = "routed"
    /\ UNCHANGED <<status_at_node, fields, params, elev, outputs, mat, rhs, dt, steps>>

Reroute == RerouteWith(SlopeValues)

run_one_step_simple_explicit(d) ==
    /\ pc \in {"routed", "stepped"}
    /\ solver = "explicit"
    /\ steps < MaxSteps
    /\ LET c == calc_sediment_rate_of_change
       IN  /\ sediment_outflux' = c.outflux
           /\ abrasion' = c.abrasion
           /\ sediment_influx' = c.influx
           /\ dzdt' = c.dzdt
           /\ elev' = AdvanceElevation(elev, c.dzdt, d)
    /\ dt' = d
    /\ steps' = steps + 1
    /\ pc' = "stepped"
    /\ UNCHANGED <<status_at_node, fields, params, routing, mat, rhs>>

run_one_step_matrix_inversion(d) ==
    /\ pc \in {"routed", "stepped"}
    /\ solver = "matrix"
    /\ steps < MaxSteps
    /\ LET s == fill_matrix_and_rhs(mat, rhs, d)
       IN  /\ mat' = s.mat
           /\ rhs' = s.rhs
           /\ elev' = AssignCoreElevation(elev, spsolve(s.mat, s.rhs))
    /\ dt' = d
    /\ steps' = steps + 1
    /\ pc' = "stepped"
    /\ UNCHANGED <<status_at_node, fields, params, routing, outputs>>

InitOn(grid, slopes) ==
    /\ pc = "new"
    /\ status_at_node = grid
    /\ fields = InputFields
    /\ solver = "" /\ abrasion_coef = 0 /\ porosity_factor = 0
    /\ elev = InitialElevation(grid)
    /\ \E g \in Routings(grid, slopes) :
          /\ receiver_node = [n \in DOMAIN grid |-> g[n][1]]
          /\ slope = [n \in DOMAIN grid |-> g[n][2]]
          /\ discharge = [n \in DOMAIN grid |-> g[n][3]]
    /\ sediment_influx = <<>> /\ sediment_outflux = <<>>
    /\ dzdt = <<>> /\ abrasion = <<>>
    /\ mat = <<>> /\ rhs = <<>>
    /\ dt = 0
    /\ steps = 0

Init == InitOn(GridTwoCores, SlopeValues)

Next ==
    \/ \E s \in SolverValues, ab \in AbrasionValues : Construct(s, ab)
    \/ Reroute
    \/ \E d \in DtValues : run_one_step_simple_explicit(d)
    \/ \E d \in DtValues : run_one_step_matrix_inversion(d)

\* Any number of steps on the two-core grid, the router running in between.
Spec == Init /\ [][Next]_vars

\* The first step of a new component on the three-core grid.
InitFresh == InitOn(GridThreeCores, SlopeValues)

NextFresh ==
    \/ \E s \in SolverValues, ab \in AbrasionValues : Construct(s, ab)
    \/ \E d \in DtValues : pc = "routed" /\ run_one_step_simple_explicit(d)
    \/ \E d \in DtValues : pc = "routed" /\ run_one_step_matrix_inversion(d)

SpecFresh == InitFresh /\ [][NextFresh]_vars

\* A surface whose slope is zero at every node, whenever the router runs.
InitFlat == InitOn(GridTwoCores, {0})

RerouteFlat == RerouteWith({0})

NextFlat ==
    \/ \E s \in SolverValues, ab \in AbrasionValues : Construct(s, ab)
    \/ RerouteFlat
    \/ \E d \in DtValues : run_one_step_simple_explicit(d)
    \/ \E d \in DtValues : run_one_step_matrix_inversion(d)

SpecFlat == InitFlat /\ [][NextFlat]_vars

-----------------------------------------------------------------------------
(* Properties *)

RECURSIVE SumOver(_, _)
SumOver(S, g) ==
    IF S = {} THEN 0
    ELSE LET x == CHOOSE y \in S : TRUE IN g[x] + SumOver(S \ {x}, g)

RECURSIVE RSumOver(_, _)
RSumOver(S, g) ==
    IF S = {} THEN R(0)
    ELSE LET x == CHOOSE y \in S : TRUE IN RAdd(g[x], RSumOver(S \ {x}, g))

Constructed == pc \in {"routed", "stepped"}
SteppedExplicit == pc = "stepped" /\ solver = "explicit"
SteppedMatrix == pc = "stepped" /\ solver = "matrix"
SendersOf(n) == {c \in core_nodes : receiver_node[c] = n}
BoundaryNodes == Nodes \ core_nodes

\* C1: after an explicit step, the influx of every node is the sum of the
\* outflux of the core nodes that drain into it (0 when there is none).
C1_InfluxIsSumOfSenders ==
    SteppedExplicit =>
        \A n \in Nodes : sediment_influx[n] = SumOver(SendersOf(n), sediment_outflux)

\* C2: in either mode, after any number of steps, every FIXED_VALUE or
\* CLOSED node has the elevation it started with, and its rate of change
\* has not been written.
C2_BoundaryUntouched ==
    Constructed =>
        \A n \in BoundaryNodes :
            /\ elev[n] = InitialElevation(status_at_node)[n]
            /\ dzdt[n] = 0

C2_Witness ==
    /\ pc = "stepped" /\ steps > 1
    /\ \E n \in BoundaryNodes : status_at_node[n] = "FIXED_VALUE"
    /\ \E n \in BoundaryNodes : status_at_node[n] = "CLOSED"
    /\ \A c \in core_nodes : elev[c] # InitialElevation(status_at_node)[c]

\* C3: without abrasion, an explicit step changes the sediment volume of the
\* core nodes by exactly what leaves them: the sum over core nodes of
\* (elevation change x cell area x (1 - porosity)) is -dt times the summed
\* outflux of the core nodes whose receiver is not a core node.
C3_VolumeConserved ==
    [][(steps' = steps + 1 /\ solver = "explicit" /\ abrasion_coef = 0) =>
        RDivInt(RScale((SedimentPorosity[2] - SedimentPorosity[1]) * area_of_cell,
                       RSumOver(core_nodes, [c \in core_nodes |-> RSub(elev'[c], elev[c])])),
                SedimentPorosity[2])
        = R(-dt' * SumOver({c \in core_nodes : receiver_node[c] \notin core_nodes},
                           sediment_outflux'))]_vars

\* C4: a construction that fails on the solver string leaves the grid with
\* the fields it had: none is added.
C4_FailedConstructionLeavesGrid ==
    pc = "failed" =>
        /\ fields = InputFields
        /\ sediment_influx = <<>> /\ sediment_outflux = <<>>
        /\ dzdt = <<>> /\ abrasion = <<>>

\* C5: on a surface whose slope is always zero, in either mode and for any
\* abrasion coefficient, the fluxes and the rate of change are zero at every
\* node and every elevation is the initial one, after any number of steps.
C5_ZeroSlopeIsStill ==
    Constructed =>
        \A n \in Nodes :
            /\ sediment_outflux[n] = 0
            /\ sediment_influx[n] = 0
            /\ dzdt[n] = 0
            /\ elev[n] = InitialElevation(status_at_node)[n]

C5_Witness ==
    /\ SteppedMatrix /\ steps > 1 /\ abrasion_coef > 0
    /\ \A n \in Nodes : slope[n] = 0
    /\ \E c \in core_nodes : receiver_node[c] \in core_nodes \ {c}
    /\ \E c \in core_nodes : receiver_node[c] \notin core_nodes

\* C6: after a step in either mode, the outflux of every node is
\* transport_coefficient x intermittency_factor x discharge x slope^(7/6).
C6_OutfluxRecomputed ==
    pc = "stepped" =>
        \A n \in Nodes :
            sediment_outflux[n] =
                transport_coefficient * intermittency_factor * discharge[n]
                * slope[n] * SixthRoot(slope[n])

\* C7 as stated: the rate of change of a core node is
\* (influx - outflux) / (1 - porosity) / cell_area - abrasion, the abrasion
\* rate not scaled by the porosity factor.
C7_AbrasionUnscaled ==
    SteppedExplicit =>
        \A n \in core_nodes :
            dzdt[n] = (((sediment_influx[n] - sediment_outflux[n]) * SedimentPorosity[2])
                          \div (SedimentPorosity[2] - SedimentPorosity[1]))
                          \div area_of_cell
                      - abrasion[n]

\* C7 as amended: the rate of change of a core node is
\* ((influx - outflux) / cell_area - abrasion) / (1 - porosity): the porosity
\* factor scales the abrasion rate as well as the flux divergence.
C7_AbrasionScaled ==
    SteppedExplicit =>
        \A n \in core_nodes :
            dzdt[n] = ((((sediment_influx[n] - sediment_outflux[n]) \div area_of_cell)
                           - abrasion[n]) * SedimentPorosity[2])
                      \div (SedimentPorosity[2] - SedimentPorosity[1])

C7_Witness ==
    /\ SteppedExplicit /\ abrasion_coef > 0
    /\ \E n \in core_nodes :
          abrasion[n] > 0 /\ sediment_influx[n] > sediment_outflux[n]
    /\ \E n \in core_nodes :
          abrasion[n] > 0 /\ sediment_influx[n] < sediment_outflux[n]

\* C8: with abrasion, after an explicit step the abrasion rate of a core
\* node is abrasion_coefficient x (outflux + influx) / 2 / edge length, for the
\* outflux and influx that same step stored.
C8_AbrasionFromSameStep ==
    (SteppedExplicit /\ abrasion_coef > 0) =>
        \A n \in core_nodes :
            abrasion[n] = (abrasion_coef * (sediment_outflux[n] + sediment_influx[n]))
                          \div (2 * dx)

\* The orders in which the core nodes can be visited.
CoreOrders ==
    {p \in [1 .. Cardinality(core_nodes) -> core_nodes] :
        \A x, y \in DOMAIN p : x # y => p[x] # p[y]}

\* C9: the first assembly, on the zeroed matrix: the diagonal of core node r
\* is 1 + a f[r] + the sum of b f[i] over the core nodes i draining into r;
\* for a core node i with core receiver r # i, entry (i, r) is -a f[i] and
\* entry (r, i) is -b f[i]; every other entry is 0; rhs[i] is elevation[i],
\* plus a f[i] elevation[r] when the receiver r is not a core node; and the
\* filling loop builds this matrix in whatever order it visits the core nodes.
C9_MatrixClosedForm ==
    (SteppedMatrix /\ steps = 1) =>
        LET a == CoefA(dt)
            b == CoefB(dt)
            f == [i \in Nodes |-> discharge[i] * SixthRoot(slope[i])]
            z == InitialElevation(status_at_node)
        IN  /\ \A r \in core_nodes :
                  mat[mat_id[r]][mat_id[r]] =
                      1 + a * f[r] + SumOver(SendersOf(r), [i \in Nodes |-> b * f[i]])
            /\ \A i \in core_nodes : \A r \in core_nodes \ {i} :
                  mat[mat_id[i]][mat_id[r]] =
                      IF receiver_node[i] = r THEN -(a * f[i])
                      ELSE IF receiver_node[r] = i THEN -(b * f[r])
                      ELSE 0
            /\ \A i \in core_nodes :
                  rhs[mat_id[i]] =
                      IF receiver_node[i] \in core_nodes THEN z[i]
                      ELSE RAdd(z[i], RScale(a * f[i], z[receiver_node[i]]))
            /\ \A order \in CoreOrders :
                  FillLoop(make_empty_matrix_and_rhs(status_at_node), dt, order).mat = mat

C9_Witness ==
    /\ SteppedMatrix /\ steps = 1 /\ abrasion_coef = 0
    /\ \E r \in core_nodes :
          /\ receiver_node[r] \notin core_nodes
          /\ slope[r] > 0
          /\ \E i, k \in SendersOf(r) : i # k /\ slope[i] > 0 /\ slope[k] > 0

\* C10: the matrix a step solves is the one the assembly builds from an
\* all-zero matrix for that step's receivers: nothing of an earlier step
\* remains in it.
C10_NoResidue ==
    SteppedMatrix =>
        mat = fill_matrix_and_rhs(make_empty_matrix_and_rhs(status_at_node).mat,
                                  rhs, dt).mat

====
